---- MODULE Spec2Model ----
(***************************************************************************)
(* libreguitar: the game-state engine (GameLogic), the audio callback      *)
(* that feeds it and the observer channels it broadcasts to.               *)
(*                                                                         *)
(* Option<T> is a sequence of length 0 (None) or 1 (Some).                 *)
(* An mpsc channel is an unbounded FIFO; send fails exactly when the       *)
(* receiver has been dropped, recv fails exactly when the queue is empty   *)
(* and the sender has been dropped.                                        *)
(*                                                                         *)
(* Spec is the game with its threads. The library operations that need no  *)
(* thread are run on their own: SpecStream (the stream's sample buffer),   *)
(* SpecNote (Note), SpecRegistry (NoteRegistry), SpecTuning (Tuning and   *)
(* ActiveNotes), SpecTarget (TargetNotes), SpecAlgorithm (moving_avg and   *)
(* find_peaks) and SpecFindNote (find_note); each starts from inputs drawn *)
(* from small sets.                                                        *)
(***************************************************************************)
EXTENDS Integers, Sequences, FiniteSets, TLC

\* ---------------------------------------------------------------- bounds
MaxResults == 3   \* AnalysisResults the audio callback sends in one run
MaxRounds == 2    \* targets the game loop picks in one run
MaxPlays == 1     \* ThreadCtrl::Start messages the control channel holds at once
MaxNeeded == 3    \* note_count_for_acceptance is drawn from 0..MaxNeeded
MaxPeriod == 2    \* state_update_period is drawn from 0..MaxPeriod
NumObs == 2       \* length of tx_vec
MaxSlots == 6     \* bins of a spectrum of find_note that can hold a spike
MaxSignal == 5    \* samples in one signal of moving_avg or find_peaks
MaxWindow == 4    \* moving_avg is called with window_size 0..MaxWindow
MaxPeakDist == 3  \* find_peaks is called with min_peak_dist None or 0..MaxPeakDist
MaxTargets == 3   \* notes in one input of TargetNotes::new
MaxFreq == 27     \* get_closest is called with 0..MaxFreq and NaN
MaxStrings == 2   \* rows in one tuning specification
MaxFretEnd == 3   \* fret ranges are drawn with 0 <= begin < end <= MaxFretEnd
MaxNotes == 3     \* notes in one input of NoteRegistry::from_notes
MaxSemitones == 13   \* add_semitone is called with -MaxSemitones..MaxSemitones
MaxOctave == 3    \* notes handed to the Note operations have octave 2..MaxOctave
MaxBlock == 2     \* block_size is drawn from 0..MaxBlock
MaxData == 4      \* interleaved samples one stream callback delivers

\* frequency of a note produced by Note::add_semitone (f64::NAN)
NAN == -1

None == <<>>
Some(x) == <<x>>

\* ------------------------------------------------------------ core::Note
pos_in_octave(name) ==
  CASE name = "C" -> 0 [] name = "CSharp" -> 1 [] name = "D" -> 2
    [] name = "DSharp" -> 3 [] name = "E" -> 4 [] name = "F" -> 5
    [] name = "FSharp" -> 6 [] name = "G" -> 7 [] name = "GSharp" -> 8
    [] name = "A" -> 9 [] name = "ASharp" -> 10 [] name = "B" -> 11

name_in_octave(pos) ==
  CASE pos = 0 -> "C" [] pos = 1 -> "CSharp" [] pos = 2 -> "D"
    [] pos = 3 -> "DSharp" [] pos = 4 -> "E" [] pos = 5 -> "F"
    [] pos = 6 -> "FSharp" [] pos = 7 -> "G" [] pos = 8 -> "GSharp"
    [] pos = 9 -> "A" [] pos = 10 -> "ASharp" [] pos = 11 -> "B"

\* Rust's `/` truncates toward zero and `%` takes the sign of the dividend.
TruncDiv(a, b) == IF a >= 0 THEN a \div b ELSE -((-a) \div b)
TruncRem(a, b) == a - b * TruncDiv(a, b)

MkNote(octave, name, frequency) ==
  [octave |-> octave, name |-> name, frequency |-> frequency]

\* add_semitone with the octave carry of the truncating division alone
add_semitone_truncating(note, semitones) ==
  LET new_pos == pos_in_octave(note.name) + semitones
  IN MkNote(note.octave + TruncDiv(new_pos, 12), name_in_octave(new_pos % 12), NAN)

\* add_semitone borrowing an octave for every negative position
add_semitone_borrowing(note, semitones) ==
  LET new_pos == pos_in_octave(note.name) + semitones
  IN MkNote(note.octave + TruncDiv(new_pos, 12) - (IF new_pos < 0 THEN 1 ELSE 0),
            name_in_octave(new_pos % 12), NAN)

add_semitone(note, semitones) ==
  LET pos == pos_in_octave(note.name)
      new_pos == pos + semitones
      octave_offset == TruncDiv(new_pos, 12)
                         - (IF new_pos < 0 /\ TruncRem(new_pos, 12) # 0 THEN 1 ELSE 0)
  IN MkNote(note.octave + octave_offset, name_in_octave(new_pos % 12), NAN)

\* impl PartialEq for Note, with frequency compared too
NoteEqWithFrequency(a, b) ==
  a.octave = b.octave /\ a.name = b.name /\ a.frequency = b.frequency

\* impl PartialEq for Note, with the name compared alone
NoteEqNameOnly(a, b) == a.name = b.name

\* impl PartialEq for Note
NoteEq(a, b) == a.octave = b.octave /\ a.name = b.name

\* ---------------------------------------------------- core::NoteRegistry
\* The registry of the run: idx2note, sorted by frequency (Hz, rounded).
E2 == MkNote(2, "E", 82)
F2 == MkNote(2, "F", 87)
FSharp2 == MkNote(2, "FSharp", 92)
Registry == <<E2, F2, FSharp2>>

find_note(registry, note) ==
  LET hits == {i \in 1..Len(registry) :
                 registry[i].octave = note.octave /\ registry[i].name = note.name}
  IN IF hits = {} THEN None ELSE Some(CHOOSE i \in hits : TRUE)

\* add_semitones handing back the transposed note instead of the registry's
add_semitones_transposed(registry, note, semitones) ==
  LET new_idx == find_note(registry, add_semitone(note, semitones))
  IN IF new_idx = None THEN None ELSE Some(add_semitone(note, semitones))

add_semitones(registry, note, semitones) ==
  LET new_idx == find_note(registry, add_semitone(note, semitones))
  IN IF new_idx = None THEN None ELSE Some(registry[new_idx[1]])

\* ---------------------------------------------------------- core::Tuning
\* The tuning of the run: string 1 is F#2, string 2 is E2.
TuningValues == <<FSharp2, E2>>

\* Tuning::note. locs2notes reads its result as an Option, None for a string the
\* tuning lacks; core/tuning.rs returns &Note and panics there. The runs below
\* draw only strings the tuning holds, where the two agree.
TuningNote(values, string_idx) ==
  IF string_idx > 0 /\ string_idx <= Len(values) THEN Some(values[string_idx]) ELSE None

\* --------------------------------------------------------- core::GameCfg
\* The rectangle of the run: strings 1..2, frets 0..1 (both ranges half open).
GameCfgRanges == [fret_range |-> <<0, 2>>, string_range |-> <<1, 3>>]

FretRange == GameCfgRanges.fret_range[1] .. (GameCfgRanges.fret_range[2] - 1)
StringRange == GameCfgRanges.string_range[1] .. (GameCfgRanges.string_range[2] - 1)

MkFretLoc(string_idx, fret_idx) == [string_idx |-> string_idx, fret_idx |-> fret_idx]

\* ----------------------------------------------------- game::ActiveNotes
active_locations == {MkFretLoc(s, f) : s \in StringRange, f \in FretRange}

locs2notes(loc) ==
  LET open_string_note == TuningNote(TuningValues, loc.string_idx)
  IN IF open_string_note = None THEN None
     ELSE add_semitones(Registry, open_string_note[1], loc.fret_idx)

\* ActiveNotes::new: the map holds the locations whose note exists.
ActiveNotesMap ==
  LET present == {loc \in active_locations : locs2notes(loc) # None}
  IN [loc \in present |-> locs2notes(loc)[1]]

ActiveNotesGet(loc) ==
  IF loc \in DOMAIN ActiveNotesMap THEN Some(ActiveNotesMap[loc]) ELSE None

\* ------------------------------------------------------------- the state
VARIABLES
  needed_detection_count,  \* config.note_count_for_acceptance
  state_update_period,     \* config.state_update_period
  pc,          \* game thread: "idle", "pick", "send_init", "recv", "send_prog", "panicked"
  panic,       \* why the game thread panicked ("" while it has not)
  key,         \* pick_note's last drawn FretLoc (None before the first draw)
  state,       \* the loop's GameState (meaningful once a target was picked)
  tx_idx,      \* position in `for tx in tx_vec.iter()`
  rounds,      \* number of targets picked so far
  round_from,  \* Len(processed) when the current target was picked
  stale,       \* queued results sent before the current target's first broadcast
               \* ended; 0 while no target is being counted
  ctrl,        \* ThreadCtrl::Start messages queued in the control channel
  ctrl_tx_alive,   \* the GameLogic value (owner of ctrl_tx) has not been dropped
  queue,       \* AnalysisResults in the analysis channel
  analysis_tx_alive,   \* the audio stream (owner of analysis_tx) has not been dropped
  callback_panicked,   \* the audio callback has panicked
  processed,   \* every AnalysisResult the game loop has taken from rx.iter(), in order
  obs,         \* obs[i]: every GameState delivered to observer channel i, in order
  obs_open,    \* obs_open[i]: observer i still holds its Receiver
  audio_buffer,    \* create_audio_stream's VecDeque of listened-channel samples
  block_size,      \* the block_size create_audio_stream was given
  notes,       \* the Vec<Note> last handed to NoteRegistry::from_notes
  note_registry,    \* what that from_notes call produced
  call         \* the last library call made on its own: arguments and result

vars == <<needed_detection_count, state_update_period, pc, panic, key, state, tx_idx,
          rounds, round_from, stale, ctrl, ctrl_tx_alive, queue, analysis_tx_alive,
          callback_panicked, processed, obs, obs_open,
          audio_buffer, block_size, notes, note_registry, call>>

cfgVars == <<needed_detection_count, state_update_period>>
gameVars == <<pc, panic, key, state, tx_idx, rounds, round_from, stale>>
obsVars == <<obs, obs_open>>
audioVars == <<queue, analysis_tx_alive, callback_panicked>>
streamVars == <<audio_buffer, block_size>>
libVars == <<notes, note_registry, call>>
threadVars == <<cfgVars, gameVars, ctrl, ctrl_tx_alive, audioVars, processed, obsVars>>

Observers == 1..NumObs

\* What identify_note can hand to the callback: nothing, a registry note, a note of
\* the same (octave, name) as a registry note with another frequency, or a note
\* that differs from one only in its octave.
AnalysisResults ==
  {[note |-> None]} \cup
  {[note |-> Some(n)] : n \in {E2, MkNote(2, "F", NAN), MkNote(3, "F", 174)}}

NoState == [target_note |-> MkNote(0, "C", NAN), target_loc |-> MkFretLoc(0, 0),
            needed_detection_count |-> 0, curr_detection_count |-> 0]

\* No NoteRegistry built and no library call made yet.
NoRegistry == [tag |-> "None", idx2note |-> <<>>, note2idx |-> <<>>]
NoCall == [op |-> "none"]

\* The game thread, the channels and the observers right after GameLogic::new.
ThreadsIdle ==
  /\ pc = "idle"
  /\ panic = ""
  /\ key = None
  /\ state = NoState
  /\ tx_idx = 1
  /\ rounds = 0
  /\ round_from = 0
  /\ stale = 0
  /\ ctrl = 0
  /\ ctrl_tx_alive = TRUE
  /\ queue = <<>>
  /\ analysis_tx_alive = TRUE
  /\ callback_panicked = FALSE
  /\ processed = <<>>
  /\ obs = [i \in Observers |-> <<>>]
  /\ obs_open = [i \in Observers |-> TRUE]

\* Nothing built outside the game: no stream buffer, no registry, no call.
LibIdle ==
  /\ audio_buffer = <<>>
  /\ block_size = 0
  /\ notes = <<>>
  /\ note_registry = NoRegistry
  /\ call = NoCall

Init ==
  /\ needed_detection_count \in 0..MaxNeeded
  /\ state_update_period \in 0..MaxPeriod
  /\ ThreadsIdle
  /\ LibIdle

\* A panic of the game thread unwinds its closure: rx, ctrl_rx and tx_vec are
\* dropped, and the queued messages with them.
Panicked(why) ==
  /\ pc' = "panicked"
  /\ panic' = why
  /\ queue' = <<>>
  /\ ctrl' = 0


\* ------------------------------------------------------ game::GameLogic
\* wait_until_start with the control channel left unchecked
StartReceivedUnchecked(n) == TRUE

\* wait_until_start: rx.recv() returns Ok(ThreadCtrl::Start)
StartReceived(n) == n > 0

\* the ranges of pick_note taken as closed ranges
DrawSetInclusive ==
  {MkFretLoc(s, f) : s \in StringRange \cup {GameCfgRanges.string_range[2]},
                     f \in FretRange \cup {GameCfgRanges.fret_range[2]}}

\* pick_note: rng.gen_range over string_range.r() and fret_range.r()
DrawSet == {MkFretLoc(s, f) : s \in StringRange, f \in FretRange}

\* the progress test without its `> 0` conjunct
ShouldBroadcastNoPositive(count, period) == period > 0 /\ count % period = 0

\* the progress test without its period
ShouldBroadcastEveryResult(count, period) == count > 0

\* the progress test passing at the first detection only
ShouldBroadcastOnFirst(count, period) == count = 1

\* game_logic.rs:81-82; evaluated only with period > 0
ShouldBroadcast(count, period) == count > 0 /\ count % period = 0

\* game_logic.rs:88
ShouldBreak(count, needed) == count = needed

\* rx.iter() yielding the newest queued message
rx_next_newest(q) == [item |-> q[Len(q)], rest |-> SubSeq(q, 1, Len(q) - 1)]

\* rx.iter().next() on a non-empty channel
rx_next(q) == [item |-> Head(q), rest |-> Tail(q)]

\* tx.send on an open channel
tx_send(chan, msg) == Append(chan, msg)

\* the detection test comparing the names alone
IsDetectionNameOnly(analysis, target_note) ==
  analysis.note # None /\ analysis.note[1].name = target_note.name

\* game_logic.rs:78-80: the amount added to curr_detection_count
IsDetection(analysis, target_note) ==
  analysis.note # None /\ NoteEq(analysis.note[1], target_note)

\* thread start: wait_until_start(&ctrl_rx).unwrap()
GameWaitStart ==
  /\ pc = "idle"
  /\ \/ /\ StartReceived(ctrl)
        /\ ctrl' = (IF ctrl > 0 THEN ctrl - 1 ELSE 0)
        /\ pc' = "pick"
        /\ UNCHANGED <<panic, queue>>
     \/ /\ ctrl = 0
        /\ ~ctrl_tx_alive
        /\ Panicked("wait_until_start")
  /\ UNCHANGED <<streamVars, libVars, cfgVars, key, state, tx_idx, rounds, round_from, stale,
                 ctrl_tx_alive,
                 analysis_tx_alive, callback_panicked, processed, obsVars>>

\* game_logic.rs:67-73: pick_note and the round's fresh GameState
GamePick ==
  /\ pc = "pick"
  /\ rounds < MaxRounds
  /\ \E loc \in DrawSet :
       /\ key' = Some(loc)
       /\ IF ActiveNotesGet(loc) = None
          THEN /\ Panicked("pick_note")
               /\ stale' = 0
               /\ UNCHANGED <<state, tx_idx, rounds, round_from>>
          ELSE /\ state' = [target_note |-> ActiveNotesGet(loc)[1],
                            target_loc |-> loc,
                            needed_detection_count |-> needed_detection_count,
                            curr_detection_count |-> 0]
               /\ tx_idx' = 1
               /\ rounds' = rounds + 1
               /\ round_from' = Len(processed)
               /\ pc' = "send_init"
               /\ UNCHANGED <<panic, queue, ctrl, stale>>
  /\ UNCHANGED <<streamVars, libVars, cfgVars, ctrl_tx_alive, analysis_tx_alive,
                 callback_panicked, processed, obsVars>>

\* `for tx in tx_vec.iter()` left after its first turn
BroadcastDoneAfterFirst(i) == i >= 1

\* `for tx in tx_vec.iter()` has made its last turn
BroadcastDone(i) == i = NumObs

\* where the loop is after `for tx in tx_vec.iter()` has ended
AfterBroadcast ==
  IF pc = "send_init" THEN "recv"
  ELSE IF ShouldBreak(state.curr_detection_count, needed_detection_count)
       THEN "pick" ELSE "recv"

\* one tx.send(state.clone()).unwrap() of game_logic.rs:74-76 or :84-86
GameSend ==
  /\ pc \in {"send_init", "send_prog"}
  /\ IF obs_open[tx_idx]
     THEN /\ obs' = [obs EXCEPT ![tx_idx] = tx_send(@, state)]
          /\ IF BroadcastDone(tx_idx)
             THEN pc' = AfterBroadcast /\ tx_idx' = 1
             ELSE pc' = pc /\ tx_idx' = tx_idx + 1
          /\ stale' = (IF ~BroadcastDone(tx_idx) THEN stale
                       ELSE IF pc = "send_init" THEN Len(queue)
                       ELSE IF AfterBroadcast = "pick" THEN 0 ELSE stale)
          /\ UNCHANGED <<panic, queue, ctrl>>
     ELSE /\ Panicked("send")
          /\ stale' = 0
          /\ UNCHANGED <<obs, tx_idx>>
  /\ UNCHANGED <<streamVars, libVars, cfgVars, key, state, rounds, round_from, ctrl_tx_alive, analysis_tx_alive,
                 callback_panicked, processed, obs_open>>

\* game_logic.rs:77-91: one turn of `for analysis in rx.iter()`
GameRecv ==
  /\ pc = "recv"
  /\ \/ /\ queue # <<>>
        /\ LET analysis == rx_next(queue).item
               count == state.curr_detection_count
                          + (IF IsDetection(analysis, state.target_note) THEN 1 ELSE 0)
           IN /\ processed' = Append(processed, analysis)
              /\ state' = [state EXCEPT !.curr_detection_count = count]
              /\ IF count > 0 /\ state_update_period = 0
                 THEN /\ Panicked("remainder")
                      /\ stale' = 0
                      /\ UNCHANGED tx_idx
                 ELSE /\ queue' = rx_next(queue).rest
                      /\ stale' = (IF stale = 0
                                     \/ (/\ ~ShouldBroadcast(count, state_update_period)
                                         /\ ShouldBreak(count, needed_detection_count))
                                   THEN 0 ELSE stale - 1)
                      /\ UNCHANGED <<panic, ctrl>>
                      /\ IF ShouldBroadcast(count, state_update_period)
                         THEN pc' = "send_prog" /\ tx_idx' = 1
                         ELSE /\ pc' = (IF ShouldBreak(count, needed_detection_count)
                                        THEN "pick" ELSE "recv")
                              /\ UNCHANGED tx_idx
     \/ \* the sender is gone and the channel is drained: rx.iter() ends
        /\ queue = <<>>
        /\ ~analysis_tx_alive
        /\ pc' = "pick"
        /\ UNCHANGED <<panic, queue, ctrl, state, tx_idx, processed, stale>>
  /\ UNCHANGED <<streamVars, libVars, cfgVars, key, rounds, round_from, ctrl_tx_alive,
                 analysis_tx_alive,
                 callback_panicked, obsVars>>

\* GameLogic::play
Play ==
  /\ ctrl_tx_alive
  /\ ctrl < MaxPlays
  /\ ctrl' = (IF pc = "panicked" THEN ctrl ELSE ctrl + 1)
  /\ UNCHANGED <<streamVars, libVars, cfgVars, gameVars, ctrl_tx_alive, audioVars, processed, obsVars>>

\* The GameLogic value is dropped, and ctrl_tx with it. The loop reads the control
\* channel only in wait_until_start, so the drop is followed only from the states
\* where it can change what the loop does: idle, with no Start queued.
DropGameLogic ==
  /\ ctrl_tx_alive
  /\ pc = "idle"
  /\ ctrl = 0
  /\ ctrl_tx_alive' = FALSE
  /\ UNCHANGED <<streamVars, libVars, cfgVars, gameVars, ctrl, audioVars, processed, obsVars>>

\* --------------------------------------------------------------- app.rs
\* audio_read_callback: analysis_tx.send(analysis).unwrap()
AudioCallback ==
  /\ analysis_tx_alive
  /\ ~callback_panicked
  /\ Len(processed) + Len(queue) < MaxResults
  /\ \E analysis \in AnalysisResults :
       IF pc = "panicked"
       THEN /\ callback_panicked' = TRUE
            /\ UNCHANGED queue
       ELSE /\ queue' = tx_send(queue, analysis)
            /\ UNCHANGED callback_panicked
  /\ UNCHANGED <<streamVars, libVars, cfgVars, gameVars, ctrl, ctrl_tx_alive, analysis_tx_alive,
                 processed, obsVars>>

\* The audio Stream is dropped, and the callback's analysis_tx with it. The loop
\* sees the drop only when rx.iter() finds the channel empty, so the drop is
\* followed only from those states: a drop made earlier leads to the same runs
\* of the loop as one made when the queued results have been taken.
DropStream ==
  /\ analysis_tx_alive
  /\ pc = "recv"
  /\ queue = <<>>
  /\ analysis_tx_alive' = FALSE
  /\ UNCHANGED <<streamVars, libVars, cfgVars, gameVars, ctrl, ctrl_tx_alive, queue,
                 callback_panicked, processed, obsVars>>

\* An observer drops its Receiver<GameState>. The loop sees the drop only at its
\* next send to that observer, so the drop is followed only from the states where
\* that send is the loop's next step.
DropObserver ==
  \E i \in Observers :
    /\ obs_open[i]
    /\ pc \in {"send_init", "send_prog"}
    /\ tx_idx = i
    /\ obs_open' = [obs_open EXCEPT ![i] = FALSE]
    /\ UNCHANGED <<streamVars, libVars, cfgVars, gameVars, ctrl, ctrl_tx_alive, audioVars,
                   processed, obs>>

Next ==
  \/ GameWaitStart
  \/ GamePick
  \/ GameSend
  \/ GameRecv
  \/ Play
  \/ DropGameLogic
  \/ AudioCallback
  \/ DropStream
  \/ DropObserver

Spec == Init /\ [][Next]_vars

\* ------------------------------------------------------------ the claims
IsPrefix(s, t) == Len(s) <= Len(t) /\ SubSeq(t, 1, Len(s)) = s

Rectangle ==
  {MkFretLoc(s, f) : s \in GameCfgRanges.string_range[1] .. (GameCfgRanges.string_range[2] - 1),
                     f \in GameCfgRanges.fret_range[1] .. (GameCfgRanges.fret_range[2] - 1)}

\* a step of the loop that takes one AnalysisResult from the channel
TakesResult == pc = "recv" /\ processed' # processed

\* the result equals the target by (name, octave)
SameNameOctave(analysis, target_note) ==
  /\ analysis.note # None
  /\ analysis.note[1].name = target_note.name
  /\ analysis.note[1].octave = target_note.octave

\* the results the loop has taken since it picked the current target
RoundResults == SubSeq(processed, round_from + 1, Len(processed))

\* the GameStates of the current round in a channel: from the last one with
\* curr_detection_count = 0 on
RoundStates(chan) ==
  LET zeros == {k \in 1..Len(chan) : chan[k].curr_detection_count = 0}
  IN IF zeros = {} THEN <<>>
     ELSE SubSeq(chan, CHOOSE k \in zeros : \A m \in zeros : m <= k, Len(chan))

RoundCounts(chan) ==
  [k \in 1..Len(RoundStates(chan)) |-> RoundStates(chan)[k].curr_detection_count]

\* the loop is between two broadcasts, and its thread is alive
Quiescent == pc \in {"recv", "pick"} /\ rounds > 0

\* C1: taking one AnalysisResult adds exactly 1 to curr_detection_count when its
\* note is Some and has the target's name and octave, whatever its frequency, and
\* adds nothing otherwise; the target is left as it is.
C1_CountsExactMatches ==
  [][TakesResult =>
       /\ state'.curr_detection_count =
            state.curr_detection_count
              + (IF SameNameOctave(Head(queue), state.target_note) THEN 1 ELSE 0)
       /\ state'.target_note = state.target_note
       /\ state'.target_loc = state.target_loc]_vars

\* a result with the target's name and octave and another frequency was counted
C1_Witness ==
  /\ Len(RoundResults) = 1
  /\ RoundResults[1].note = Some(MkNote(2, "F", NAN))
  /\ state.target_note = F2
  /\ state.curr_detection_count = 1

\* C2: whenever the loop is about to pick a target other than the first, the
\* counter of the current target equals needed_detection_count.
C2_PicksOnlyWhenCountReached ==
  (pc = "pick" /\ rounds > 0) => state.curr_detection_count = needed_detection_count

\* C3 as claimed: in a round fed only matching results, every observer has received
\* the target's GameStates with the counts 0, 1, ..., curr_detection_count.
C3_EveryCountReceived ==
  (/\ Quiescent
   /\ needed_detection_count >= 1
   /\ \A k \in 1..Len(RoundResults) : SameNameOctave(RoundResults[k], state.target_note))
  => \A i \in Observers :
       RoundCounts(obs[i]) = [k \in 1..(state.curr_detection_count + 1) |-> k - 1]

\* the counts a round's observers have received at counter c with period p
ProgressCounts(c, p) == <<0>> \o [k \in 1..(c \div p) |-> k * p]

\* C3: with state_update_period P >= 1, in a round fed only matching results the
\* counter equals the number of results taken and is below N while the loop
\* waits for results; every observer has received the target's GameState with
\* count 0 and then those with the multiples of P up to the counter, in order (all
\* of 1..N when P = 1); at the N-th match the loop leaves the round to pick again.
C3_ProgressCountsReceived ==
  (/\ Quiescent
   /\ needed_detection_count >= 1
   /\ state_update_period >= 1
   /\ \A k \in 1..Len(RoundResults) : SameNameOctave(RoundResults[k], state.target_note))
  => /\ state.curr_detection_count = Len(RoundResults)
     /\ state.curr_detection_count <= needed_detection_count
     /\ state.curr_detection_count = needed_detection_count => pc = "pick"
     /\ \A i \in Observers :
          /\ RoundCounts(obs[i]) = ProgressCounts(state.curr_detection_count, state_update_period)
          /\ \A k \in 1..Len(RoundStates(obs[i])) :
               /\ RoundStates(obs[i])[k].target_loc = state.target_loc
               /\ RoundStates(obs[i])[k].target_note = state.target_note
               /\ RoundStates(obs[i])[k].needed_detection_count = needed_detection_count

\* N = 3 matches were fed with period 1 and the next target has been broadcast
C3_Witness ==
  /\ needed_detection_count = 3
  /\ state_update_period = 1
  /\ rounds = 2
  /\ pc = "recv"
  /\ \A k \in 1..3 : /\ Len(processed) = 3
                     /\ SameNameOctave(processed[k], obs[1][1].target_note)
  /\ \A i \in Observers :
       /\ Len(obs[i]) = 5
       /\ [k \in 1..5 |-> obs[i][k].curr_detection_count] = <<0, 1, 2, 3, 0>>

\* C4: once the recognized-note stream is disconnected and drained the loop picks
\* no further target, and a send to an observer that has dropped its receiver
\* ends the loop.
C4_DisconnectEndsLoop ==
  /\ [][(~analysis_tx_alive /\ queue = <<>>) => rounds' = rounds]_vars
  /\ [][(pc \in {"send_init", "send_prog"} /\ ~obs_open[tx_idx] /\ obs_open' = obs_open)
          => pc' \in {pc, "panicked"}]_vars

\* C5: the audio callback never panics.
C5_CallbackNeverFails == ~callback_panicked

\* C6: nothing is broadcast and no target is picked while the loop waits for the
\* start signal; the loop leaves the wait only by taking a queued Start; it never
\* returns to the wait; and once it has left, the control channel is never read
\* again and a later play() changes nothing but the control channel.
C6_StartsOnceOnPlay ==
  /\ [](pc = "idle" => /\ rounds = 0
                       /\ processed = <<>>
                       /\ \A i \in Observers : obs[i] = <<>>)
  /\ [][(pc = "idle" /\ pc' \notin {"idle", "panicked"})
          => (ctrl > 0 /\ ctrl' = ctrl - 1 /\ pc' = "pick")]_vars
  /\ [][pc # "idle" => pc' # "idle"]_vars
  /\ [][(pc \notin {"idle", "panicked"} /\ ctrl' # ctrl)
          => \/ pc' = "panicked"
             \/ /\ ctrl' = ctrl + 1
                /\ UNCHANGED <<gameVars, queue, processed, obs>>]_vars

\* play() was called again while the loop was running a round
C6_Witness == pc = "recv" /\ rounds = 1 /\ ctrl = 1 /\ Len(processed) = 1

\* C7: a step that takes an AnalysisResult starts a progress broadcast exactly
\* when the counter is then positive and a multiple of state_update_period (no
\* positive counter is a multiple of 0); a progress broadcast starts in no other
\* step, an initial broadcast only in a pick; and every GameState delivered is the
\* loop's current GameState.
C7_ProgressBroadcastRule ==
  /\ [][TakesResult =>
          ((pc' = "send_prog") <=>
             /\ state'.curr_detection_count > 0
             /\ state_update_period > 0
             /\ state'.curr_detection_count % state_update_period = 0)]_vars
  /\ [][(pc' = "send_prog" /\ pc # "send_prog") => TakesResult]_vars
  /\ [][(pc' = "send_init" /\ pc # "send_init") => (pc = "pick" /\ rounds' = rounds + 1)]_vars
  /\ [][obs' # obs =>
          /\ pc \in {"send_init", "send_prog"}
          /\ obs' = [obs EXCEPT ![tx_idx] = Append(@, state)]
          /\ state' = state]_vars

\* with period 2 the counter passed 1 without a broadcast and 2 was broadcast
C7_Witness ==
  /\ state_update_period = 2
  /\ state.curr_detection_count = 2
  /\ Len(RoundResults) = 3
  /\ pc = "recv"
  /\ RoundCounts(obs[1]) = <<0, 2, 2>>

\* C8: while the loop lives, the results taken followed by the results queued form
\* a sequence that only grows at its end, and the loop takes the results one at a
\* time from the front of the queue: each result sent is taken once, in the order
\* sent, also when the target changes in between.
C8_ResultsTakenInOrder ==
  /\ [][pc' # "panicked" => IsPrefix(processed \o queue, processed' \o queue')]_vars
  /\ [][/\ IsPrefix(processed, processed')
        /\ Len(processed') <= Len(processed) + 1
        /\ processed' # processed => processed' = Append(processed, Head(queue))]_vars

\* three different results were taken in the order sent, the last one for a
\* second target
C8_Witness ==
  /\ rounds = 2
  /\ round_from = 2
  /\ Len(processed) = 3
  /\ queue = <<>>
  /\ Cardinality({processed[k] : k \in 1..3}) = 3

\* C9: the GameStates an observer has received are those received by every
\* observer listed before it, or all of them but the last; between two broadcasts
\* all observers have received the same sequence, which ends with a GameState of
\* the current target; and each delivery puts the
\* loop's current GameState at the end of one observer's sequence.
C9_ObserversReceiveInOrder ==
  /\ [](\A i, j \in Observers :
          i < j => /\ IsPrefix(obs[j], obs[i])
                   /\ Len(obs[i]) <= Len(obs[j]) + 1
                   /\ (Quiescent => obs[i] = obs[j]))
  /\ [](Quiescent => \A i \in Observers :
                        /\ obs[i] # <<>>
                        /\ obs[i][Len(obs[i])].target_loc = state.target_loc
                        /\ obs[i][Len(obs[i])].target_note = state.target_note)
  /\ [][\A i \in Observers :
          obs'[i] # obs[i] => (i = tx_idx /\ obs'[i] = Append(obs[i], state))]_vars

\* the first observer holds a progress GameState the second has not received yet
C9_Witness ==
  /\ pc = "send_prog"
  /\ tx_idx = 2
  /\ Len(obs[1]) = 3
  /\ Len(obs[2]) = 2
  /\ obs[1][3].curr_detection_count = 2

\* C10: every location drawn lies in string_range x fret_range and each location
\* of the rectangle can be drawn at every pick; the loop's GameState and every
\* GameState delivered hold the note ActiveNotes has at their location; and a draw
\* of a location without a note panics the loop, which then stays dead.
C10_TargetsFromActiveNotes ==
  /\ [](key # None => key[1] \in Rectangle)
  /\ []((pc = "pick" /\ rounds < MaxRounds) =>
          \A loc \in Rectangle : ENABLED (GamePick /\ key' = Some(loc)))
  /\ [](rounds > 0 => Some(state.target_note) = ActiveNotesGet(state.target_loc))
  /\ [](\A i \in Observers : \A k \in 1..Len(obs[i]) :
          /\ obs[i][k].target_loc \in Rectangle
          /\ Some(obs[i][k].target_note) = ActiveNotesGet(obs[i][k].target_loc))
  /\ []((key # None /\ ActiveNotesGet(key[1]) = None)
          <=> (pc = "panicked" /\ panic = "pick_note"))
  /\ [][pc = "panicked" => (pc' = "panicked" /\ obs' = obs /\ key' = key)]_vars

\* after a round on a valid target, the second draw hit the location without a note
C10_Witness ==
  /\ pc = "panicked"
  /\ panic = "pick_note"
  /\ rounds = 1
  /\ key = Some(MkFretLoc(1, 1))
  /\ state.target_loc = MkFretLoc(2, 1)
  /\ \A i \in Observers : Len(obs[i]) >= 1

\* --------------------------------------------------- app: the audio stream
\* Sample values a callback can deliver (the buffer starts as zeros).
Samples == {1, 2}
\* device_config.channels, and the channel asked of read_channel_buffered
\* (create_audio_stream listens to channel 1 whatever the channel count).
ChannelCounts == {1, 2}
Channels == {0, 1}

RECURSIVE SeqsUpTo(_, _)
SeqsUpTo(S, n) ==
  IF n = 0 THEN {<<>>}
  ELSE LET shorter == SeqsUpTo(S, n - 1)
       IN shorter \cup {Append(s, x) : s \in {t \in shorter : Len(t) = n - 1}, x \in S}

\* the index range with the channel offset left out
channel_indices_from_zero(channel, len, n_channels) ==
  [k \in 1..((len + n_channels - 1) \div n_channels) |-> (k - 1) * n_channels]

\* (channel..data.len()).step_by(n_channels), as 0-based indices
RECURSIVE channel_indices(_, _, _)
channel_indices(channel, len, n_channels) ==
  IF channel >= len THEN <<>>
  ELSE <<channel>> \o channel_indices(channel + n_channels, len, n_channels)

\* VecDeque::pop_front, n times
RECURSIVE pop_front(_, _)
pop_front(buffer, n) ==
  IF n = 0 \/ buffer = <<>> THEN buffer ELSE pop_front(Tail(buffer), n - 1)

\* for i in channel_indices { buffer.push_back(data[i] as f64) }
RECURSIVE push_back(_, _, _)
push_back(buffer, data, indices) ==
  IF indices = <<>> THEN buffer
  ELSE push_back(Append(buffer, data[Head(indices) + 1]), data, Tail(indices))

read_channel_buffered(data, n_channels, channel, buffer) ==
  LET indices == channel_indices(channel, Len(data), n_channels)
      n_new_values == Len(indices)
      kept == IF n_new_values >= Len(buffer) THEN <<>>
              ELSE pop_front(buffer, n_new_values)
  IN push_back(kept, data, indices)

\* create_audio_stream: the buffer starts as block_size zeros.
InitStream ==
  /\ needed_detection_count = 1
  /\ state_update_period = 1
  /\ ThreadsIdle
  /\ block_size \in 0..MaxBlock
  /\ audio_buffer = [k \in 1..block_size |-> 0]
  /\ notes = <<>>
  /\ note_registry = NoRegistry
  /\ call = NoCall

\* One run of the stream's data callback on `data`.
StreamCallback ==
  \E data \in SeqsUpTo(Samples, MaxData), n_channels \in ChannelCounts,
     channel \in Channels :
    /\ audio_buffer' = read_channel_buffered(data, n_channels, channel, audio_buffer)
    /\ call' = [op |-> "read_channel_buffered", data |-> data,
                n_channels |-> n_channels, channel |-> channel]
    /\ UNCHANGED <<threadVars, block_size, notes, note_registry>>

NextStream == StreamCallback

SpecStream == InitStream /\ [][NextStream]_vars


\* ------------------------------------------------ core::Note on its own
NoteNames == {"C", "CSharp", "D", "DSharp", "E", "F", "FSharp", "G", "GSharp",
              "A", "ASharp", "B"}

\* Notes handed to add_semitone and ==: every name, two frequencies each.
NoteInputs ==
  {MkNote(o, nm, f) : o \in 2..MaxOctave, nm \in NoteNames, f \in {82, 440}}

\* The calls a run can make: note.add_semitone(m) then .add_semitone(n) beside
\* note.add_semitone(m + n), or a == b.
NoteCalls ==
  {[op |-> "add_semitone", done |-> FALSE, note |-> note, m |-> m, n |-> n] :
     note \in NoteInputs, m \in -MaxSemitones..MaxSemitones,
     n \in -MaxSemitones..MaxSemitones}
  \cup {[op |-> "eq", done |-> FALSE, a |-> a, b |-> b] :
          a \in NoteInputs, b \in NoteInputs}

InitNote ==
  /\ needed_detection_count = 1
  /\ state_update_period = 1
  /\ ThreadsIdle
  /\ audio_buffer = <<>>
  /\ block_size = 0
  /\ notes = <<>>
  /\ note_registry = NoRegistry
  /\ call \in NoteCalls

\* note.add_semitone(m), then .add_semitone(n) on the result, and
\* note.add_semitone(m + n)
CallAddSemitone ==
  /\ call.op = "add_semitone" /\ ~call.done
  /\ call' = [op |-> "add_semitone", done |-> TRUE,
              note |-> call.note, m |-> call.m, n |-> call.n,
              first |-> add_semitone(call.note, call.m),
              second |-> add_semitone(add_semitone(call.note, call.m), call.n),
              direct |-> add_semitone(call.note, call.m + call.n)]
  /\ UNCHANGED <<threadVars, streamVars, notes, note_registry>>

\* a == b
CallEq ==
  /\ call.op = "eq" /\ ~call.done
  /\ call' = [op |-> "eq", done |-> TRUE, a |-> call.a, b |-> call.b,
              result |-> NoteEq(call.a, call.b)]
  /\ UNCHANGED <<threadVars, streamVars, notes, note_registry>>

NextNote ==
  \/ CallAddSemitone
  \/ CallEq

SpecNote == InitNote /\ [][NextNote]_vars


\* ---------------------------------------- core::NoteRegistry on its own
\* NoteRegistry::get
get(idx2note, note_name, octave) ==
  LET idx == find_note(idx2note, MkNote(octave, note_name, 0))
  IN IF idx = None THEN None ELSE Some(idx2note[idx[1]])

\* What from_notes can come to: a registry, a DuplicateNoteError or a panic.
RegistryOk(idx2note, note2idx) ==
  [tag |-> "Ok", idx2note |-> idx2note, note2idx |-> note2idx]
DuplicateNoteError == [tag |-> "Err", idx2note |-> <<>>, note2idx |-> <<>>]
RegistryPanic == [tag |-> "Panic", idx2note |-> <<>>, note2idx |-> <<>>]

\* a.frequency.partial_cmp(&b.frequency) is None when either is NaN
partial_cmp_is_none(a, b) == a.frequency = NAN \/ b.frequency = NAN

\* sort_unstable_by with the frequency as key: the arrangements of the input in
\* non-decreasing frequency. The sort is unstable, so notes of equal frequency
\* may come out in any order.
sort_unstable_by(input) ==
  {s \in {[i \in 1..Len(input) |-> input[p[i]]] : p \in Permutations(1..Len(input))} :
     \A i \in 1..(Len(s) - 1) : s[i].frequency <= s[i + 1].frequency}

\* the loop of from_notes over the sorted notes, from the i-th on
RECURSIVE insert_all(_, _, _)
insert_all(sorted, i, note2idx) ==
  IF i > Len(sorted) THEN RegistryOk(sorted, note2idx)
  ELSE LET k == <<sorted[i].octave, sorted[i].name>>
       IN IF k \in DOMAIN note2idx THEN DuplicateNoteError
          ELSE insert_all(sorted, i + 1, (k :> i) @@ note2idx)

\* NoteRegistry::from_notes: every outcome the call can have. The comparator
\* unwraps partial_cmp, and a sort of two or more notes compares each of them.
from_notes(input) ==
  IF Len(input) >= 2 /\ \E i \in 1..Len(input) : partial_cmp_is_none(input[i], input[i])
  THEN {RegistryPanic}
  ELSE {insert_all(s, 1, <<>>) : s \in sort_unstable_by(input)}

\* Entries a frequency list can hold: the three notes of the run, E2 once more
\* at F2's frequency (a second E2, and a tie with F2) and an F2 whose frequency
\* is NaN.
NotePool == {E2, F2, FSharp2, MkNote(2, "E", 87), MkNote(2, "F", NAN)}

\* Notes add_semitones is asked about: one the pool lacks among them.
QueryNotes == {E2, MkNote(2, "F", NAN), FSharp2, MkNote(2, "G", 98)}

InitRegistry ==
  /\ needed_detection_count = 1
  /\ state_update_period = 1
  /\ ThreadsIdle
  /\ audio_buffer = <<>>
  /\ block_size = 0
  /\ notes \in SeqsUpTo(NotePool, MaxNotes)
  /\ note_registry = NoRegistry
  /\ call = NoCall

\* NoteRegistry::from_notes(notes)
FromNotes ==
  /\ note_registry = NoRegistry
  /\ note_registry' \in from_notes(notes)
  /\ UNCHANGED <<threadVars, streamVars, notes, call>>

\* registry.add_semitones(&note, n)
CallAddSemitones ==
  /\ note_registry.tag = "Ok"
  /\ call = NoCall
  /\ \E note \in QueryNotes, n \in -MaxSemitones..MaxSemitones :
       call' = [op |-> "add_semitones", note |-> note, n |-> n,
                result |-> add_semitones(note_registry.idx2note, note, n)]
  /\ UNCHANGED <<threadVars, streamVars, notes, note_registry>>

NextRegistry ==
  \/ FromNotes
  \/ CallAddSemitones

SpecRegistry == InitRegistry /\ [][NextRegistry]_vars


\* ------------------------------- core::Tuning and ActiveNotes on their own
\* active_locations: the Vec of FretLocs, string by string; both ranges are
\* <<begin, end>> with the end left out.
active_locations_vec(string_range, fret_range) ==
  LET n_frets == fret_range[2] - fret_range[1]
      n_strings == string_range[2] - string_range[1]
  IN [k \in 1..(n_strings * n_frets) |->
        MkFretLoc(string_range[1] + ((k - 1) \div n_frets),
                  fret_range[1] + ((k - 1) % n_frets))]

\* locs2notes transposing by the string index instead of the fret index
locs2notes_by_string(values, idx2note, loc) ==
  LET open_string_note == TuningNote(values, loc.string_idx)
  IN IF open_string_note = None THEN None
     ELSE add_semitones(idx2note, open_string_note[1], loc.string_idx)

\* locs2notes on one location, for a tuning and a registry
locs2notes_in(values, idx2note, loc) ==
  LET open_string_note == TuningNote(values, loc.string_idx)
  IN IF open_string_note = None THEN None
     ELSE add_semitones(idx2note, open_string_note[1], loc.fret_idx)

\* the loop of ActiveNotes::new: insert the notes that exist, skip the others
RECURSIVE insert_notes(_, _, _, _)
insert_notes(locs, values, idx2note, map) ==
  IF locs = <<>> THEN map
  ELSE LET maybe_note == locs2notes_in(values, idx2note, Head(locs))
       IN insert_notes(Tail(locs), values, idx2note,
                       IF maybe_note = None THEN map
                       ELSE (Head(locs) :> maybe_note[1]) @@ map)

\* ActiveNotes::new: the `notes` map
ActiveNotesNew(idx2note, values, string_range, fret_range) ==
  insert_notes(active_locations_vec(string_range, fret_range), values, idx2note, <<>>)

\* ActiveNotes::get on a `notes` map
ActiveNotesGetIn(map, loc) ==
  IF loc \in DOMAIN map THEN Some(map[loc]) ELSE None

TuningOk(values) == [tag |-> "Ok", values |-> values]
InvalidTuningError == [tag |-> "Err", values |-> <<>>]
TuningPanic == [tag |-> "Panic", values |-> <<>>]

\* the loop of from_specification from the i-th row on (rows counted from 1),
\* with every outcome it can have. `row.string - 1` is a usize subtraction: for
\* string = 0 it panics where overflow is checked and wraps to a value that
\* differs from every index where it is not.
RECURSIVE from_specification_rows(_, _, _, _)
from_specification_rows(tuning_spec, idx2note, i, map) ==
  IF i > Len(tuning_spec) THEN {TuningOk(map)}
  ELSE LET row == tuning_spec[i]
       IN IF row.string = 0 THEN {TuningPanic, InvalidTuningError}
          ELSE IF row.string - 1 # i - 1 THEN {InvalidTuningError}
          ELSE LET note == get(idx2note, row.name, row.octave)
               IN IF note # None
                  THEN from_specification_rows(tuning_spec, idx2note, i + 1,
                                               Append(map, note[1]))
                  ELSE {InvalidTuningError}

\* Tuning::from_specification
from_specification(tuning_spec, idx2note) ==
  from_specification_rows(tuning_spec, idx2note, 1, <<>>)

\* Rows a tuning specification can hold: strings 0..MaxStrings + 1, the notes of
\* the registry and G2, which it lacks.
TuningRows ==
  {[string |-> s, octave |-> 2, name |-> nm] :
     s \in 0..(MaxStrings + 1), nm \in {"E", "F", "FSharp", "G"}}

\* The registry is that of the run, built by from_notes; the specification is
\* drawn.
InitTuning ==
  /\ needed_detection_count = 1
  /\ state_update_period = 1
  /\ ThreadsIdle
  /\ audio_buffer = <<>>
  /\ block_size = 0
  /\ notes = Registry
  /\ note_registry \in from_notes(Registry)
  /\ call \in {[op |-> "from_specification", done |-> FALSE, tuning_spec |-> spec] :
                 spec \in SeqsUpTo(TuningRows, MaxStrings)}

\* Tuning::from_specification(&tuning_spec, &registry)
CallFromSpecification ==
  /\ call.op = "from_specification" /\ ~call.done
  /\ \E result \in from_specification(call.tuning_spec, note_registry.idx2note) :
       call' = [op |-> "from_specification", done |-> TRUE,
                tuning_spec |-> call.tuning_spec, result |-> result]
  /\ UNCHANGED <<threadVars, streamVars, notes, note_registry>>

\* ActiveNotes::new(&registry, &tuning, string_range, fret_range) with the
\* tuning just built, over a rectangle of strings the tuning holds.
CallActiveNotesNew ==
  /\ call.op = "from_specification" /\ call.done /\ call.result.tag = "Ok"
  /\ \E sb \in 1..Len(call.result.values), se \in 2..(Len(call.result.values) + 1),
        fb \in 0..(MaxFretEnd - 1), fe \in 1..MaxFretEnd :
       /\ sb < se
       /\ fb < fe
       /\ call' = [op |-> "ActiveNotes::new", done |-> TRUE,
                   values |-> call.result.values,
                   string_range |-> <<sb, se>>, fret_range |-> <<fb, fe>>,
                   map |-> ActiveNotesNew(note_registry.idx2note, call.result.values,
                                          <<sb, se>>, <<fb, fe>>)]
  /\ UNCHANGED <<threadVars, streamVars, notes, note_registry>>

NextTuning ==
  \/ CallFromSpecification
  \/ CallActiveNotesNew

SpecTuning == InitTuning /\ [][NextTuning]_vars

\* ----------------------------------------------------- C11, C12: the stream
\* The samples of `channel` in interleaved `data`, in input order.
Listened(data, n_channels, channel) ==
  LET idx == {i \in 0..(Len(data) - 1) : i >= channel /\ (i - channel) % n_channels = 0}
  IN [k \in 1..Cardinality(idx) |-> data[channel + (k - 1) * n_channels + 1]]

\* C11: one callback delivering n samples of the listened channel to a buffer of
\* length L leaves the last L - n old elements followed by the n new samples when
\* n < L, exactly the n new samples when n >= L, and the buffer as it was when
\* n = 0; no sample of another channel enters the buffer.
C11_BufferKeepsLatest ==
  [][call'.op = "read_channel_buffered" =>
       LET new == Listened(call'.data, call'.n_channels, call'.channel)
           n == Len(new)
           L == Len(audio_buffer)
       IN /\ n < L => audio_buffer' = SubSeq(audio_buffer, n + 1, L) \o new
          /\ n >= L => audio_buffer' = new
          /\ n = 0 => audio_buffer' = audio_buffer]_vars

\* A callback on a two-channel stream pushed one sample into a buffer of two and
\* kept the newer of the two older samples in front of it.
C11_Witness ==
  /\ call.op = "read_channel_buffered"
  /\ call.n_channels = 2
  /\ call.channel = 1
  /\ call.data = <<1, 2>>
  /\ audio_buffer = <<1, 2>>
  /\ block_size = 2

\* C12: the stream's buffer keeps the length it was created with (block_size)
\* whatever the sizes of the callbacks.
C12_BufferLengthFixed == Len(audio_buffer) = block_size

\* ------------------------------------------------- C17, C18, C19: Note
\* C17: add_semitone(m) followed by add_semitone(n) gives the (octave, name) of
\* add_semitone(m + n); with n = -m that is the (octave, name) of the original.
C17_TranspositionsCompose ==
  call.op = "add_semitone" /\ call.done =>
    /\ call.second.octave = call.direct.octave
    /\ call.second.name = call.direct.name
    /\ call.n = -call.m =>
         /\ call.second.octave = call.note.octave
         /\ call.second.name = call.note.name

\* B3 was taken 13 semitones down (to A#2) and 13 back up.
C17_Witness ==
  /\ call.op = "add_semitone" /\ call.done
  /\ call.note.name = "B" /\ call.note.octave = 3
  /\ call.m = -13 /\ call.n = 13
  /\ call.first.name = "ASharp" /\ call.first.octave = 2
  /\ call.second.name = "B" /\ call.second.octave = 3

\* C18: add_semitone(n) on a note at position p yields the name at position
\* (p + n) mod 12 and the octave plus floor((p + n) / 12); 12 semitones keep the
\* name and add one octave, -12 keep the name and take one octave away.
C18_ModTwelveWithFloorCarry ==
  call.op = "add_semitone" /\ call.done =>
    LET p == pos_in_octave(call.note.name)
    IN /\ pos_in_octave(call.first.name) = (p + call.m) % 12
       /\ call.first.octave = call.note.octave + ((p + call.m) \div 12)
       /\ call.m = 12 => /\ call.first.name = call.note.name
                         /\ call.first.octave = call.note.octave + 1
       /\ call.m = -12 => /\ call.first.name = call.note.name
                          /\ call.first.octave = call.note.octave - 1

\* C#3 was taken 12 semitones down: position 1 - 12 = -11 carries one octave
\* down, to C#2.
C18_Witness ==
  /\ call.op = "add_semitone" /\ call.done
  /\ call.note.name = "CSharp" /\ call.note.octave = 3
  /\ call.m = -12
  /\ call.first.name = "CSharp" /\ call.first.octave = 2

\* C19: a == b holds if and only if the octaves and the names agree; the
\* frequencies play no part.
C19_EqualityIsOctaveAndName ==
  call.op = "eq" /\ call.done =>
    (call.result <=> (call.a.octave = call.b.octave /\ call.a.name = call.b.name))

\* Two notes that differ only in frequency compared equal.
C19_Witness ==
  /\ call.op = "eq" /\ call.done
  /\ call.result
  /\ call.a.frequency # call.b.frequency

\* ------------------------------------------- C14, C15, C16: NoteRegistry
\* Two entries of the input share (octave, name).
HasDuplicate(input) ==
  \E i \in 1..Len(input), j \in 1..Len(input) :
    i # j /\ input[i].octave = input[j].octave /\ input[i].name = input[j].name

\* The arrangements of a sequence.
Arrangements(input) ==
  {[i \in 1..Len(input) |-> input[p[i]]] : p \in Permutations(1..Len(input))}

\* C14: from_notes returns a DuplicateNoteError when two entries of the input
\* share (octave, name), whatever their frequencies and positions, and succeeds
\* for every other input, the empty one included.
C14_DuplicateErrorOrSuccess ==
  note_registry # NoRegistry =>
    note_registry.tag = (IF HasDuplicate(notes) THEN "Err" ELSE "Ok")

\* C15: for a duplicate-free input, notes() holds exactly the input notes in
\* ascending frequency order, and every permutation of the input builds the same
\* registry.
C15_SortedAndOrderIndependent ==
  (note_registry # NoRegistry /\ ~HasDuplicate(notes)) =>
    /\ note_registry.tag = "Ok"
    /\ note_registry.idx2note \in Arrangements(notes)
    /\ \A i \in 1..(Len(note_registry.idx2note) - 1) :
         note_registry.idx2note[i].frequency <= note_registry.idx2note[i + 1].frequency
    /\ \A input \in Arrangements(notes) : from_notes(input) = {note_registry}

\* C16: add_semitones(note, n) returns the registry's own entry, stored frequency
\* included, whose (octave, name) is that of note.add_semitone(n), and None when
\* the registry has no such entry.
C16_ReturnsRegistryEntry ==
  (call.op = "add_semitones" /\ note_registry.tag = "Ok") =>
    LET moved == add_semitone(call.note, call.n)
        entries == {note_registry.idx2note[i] : i \in 1..Len(note_registry.idx2note)}
        hits == {e \in entries : e.octave = moved.octave /\ e.name = moved.name}
    IN IF hits = {} THEN call.result = None
       ELSE call.result \in {Some(e) : e \in hits}

\* F#2 taken two semitones down gave the registry's E2 with its stored 82 Hz.
C16_Witness ==
  /\ call.op = "add_semitones"
  /\ call.note = FSharp2
  /\ call.n = -2
  /\ call.result = Some(E2)
  /\ Len(note_registry.idx2note) = 3

BadSpecification(tuning_spec, idx2note) ==
  \E k \in 1..Len(tuning_spec) :
    \/ tuning_spec[k].string # k
    \/ ~\E i \in 1..Len(idx2note) :
          /\ idx2note[i].octave = tuning_spec[k].octave
          /\ idx2note[i].name = tuning_spec[k].name

\* C20: from_specification returns an InvalidTuningError exactly when some row
\* names a note the registry lacks or the k-th row does not have string = k;
\* otherwise it succeeds and note(k) is the registry entry the k-th row names.
C20_ErrorIffBadSpecification ==
  (call.op = "from_specification" /\ call.done) =>
    IF BadSpecification(call.tuning_spec, note_registry.idx2note)
    THEN call.result.tag = "Err"
    ELSE /\ call.result.tag = "Ok"
         /\ Len(call.result.values) = Len(call.tuning_spec)
         /\ \A k \in 1..Len(call.tuning_spec) :
              /\ TuningNote(call.result.values, k) # None
              /\ TuningNote(call.result.values, k)[1] \in
                   {note_registry.idx2note[i] : i \in 1..Len(note_registry.idx2note)}
              /\ TuningNote(call.result.values, k)[1].octave = call.tuning_spec[k].octave
              /\ TuningNote(call.result.values, k)[1].name = call.tuning_spec[k].name


\* ------------------------------------------------- C28, C29, C30: the counter

\* C28 as claimed: with state_update_period >= 1, every GameState an observer
\* has received carries a counter between 0 and its needed_detection_count,
\* needed_detection_count = 0 included.
C28_CounterWithinNeeded ==
  state_update_period >= 1 =>
    \A i \in Observers : \A k \in 1..Len(obs[i]) :
      /\ 0 <= obs[i][k].curr_detection_count
      /\ obs[i][k].curr_detection_count <= obs[i][k].needed_detection_count

\* the GameStates of the current round in a channel do not fall in count
NonDecreasing(counts) ==
  \A k \in 1..(Len(counts) - 1) : counts[k] <= counts[k + 1]

StrictlyIncreasing(counts) ==
  \A k \in 1..(Len(counts) - 1) : counts[k] < counts[k + 1]

\* the result taken in this step leaves the counter as it is
TakesNonMatching ==
  TakesResult /\ ~SameNameOctave(Head(queue), state.target_note)

\* C29 as claimed: within a round the counts an observer receives rise strictly,
\* and a step that takes a non-matching or None result starts no broadcast.
C29_BroadcastOnlyAfterIncrease ==
  /\ [](\A i \in Observers : StrictlyIncreasing(RoundCounts(obs[i])))
  /\ [][TakesNonMatching => pc' # "send_prog"]_vars

\* C29: within a round the counts an observer receives never fall; a step that
\* takes a non-matching or None result starts no broadcast while the counter is
\* 0 or not a multiple of state_update_period, and re-broadcasts the unchanged
\* GameState when the counter is positive and a multiple of it.
C29_CountsNeverFall ==
  /\ [](\A i \in Observers : NonDecreasing(RoundCounts(obs[i])))
  /\ [][TakesNonMatching =>
          /\ state' = state
          /\ (pc' = "send_prog") <=>
               /\ state.curr_detection_count > 0
               /\ state_update_period > 0
               /\ state.curr_detection_count % state_update_period = 0]_vars

\* an observer received the same positive count twice in a round: the second
\* broadcast followed a non-matching result
C29_Witness ==
  /\ Len(RoundResults) = 2
  /\ SameNameOctave(RoundResults[1], state.target_note)
  /\ ~SameNameOctave(RoundResults[2], state.target_note)
  /\ \E i \in Observers : RoundCounts(obs[i]) = <<0, 1, 1>>

\* C30 as claimed: a result that was queued before the target's initial
\* broadcast ended leaves the new target's counter as it is.
C30_StaleResultsIgnored ==
  [][(TakesResult /\ stale > 0) =>
       state'.curr_detection_count = state.curr_detection_count]_vars

\* C30: the results queued before the target's initial broadcast ended are the
\* first the loop takes for the new target, in the order sent, none dropped, and
\* each adds 1 to the new target's counter when it has the target's name and
\* octave, like a result queued later.
C30_StaleResultsCounted ==
  /\ [](stale <= Len(queue))
  /\ [][(TakesResult /\ stale > 0) =>
          /\ processed' = Append(processed, Head(queue))
          /\ pc' # "panicked" => queue' = Tail(queue)
          /\ pc' \in {"recv", "send_prog"} => stale' = stale - 1
          /\ state'.curr_detection_count =
               state.curr_detection_count
                 + (IF SameNameOctave(Head(queue), state.target_note) THEN 1 ELSE 0)]_vars

\* the second target's counter is 1 after its first result, which was queued
\* before the target was broadcast, and another such result is still queued
C30_Witness ==
  /\ rounds = 2
  /\ Len(processed) = round_from + 1
  /\ state.curr_detection_count = 1
  /\ stale >= 1
  /\ pc = "recv"


\* ------------------------------------- audio_analysis::TargetNotes on its own
\* a call that ended in a panic
AnalysisPanic == [tag |-> "Panic"]

\* a call that returned v
Returned(v) == [tag |-> "Ok", value |-> v]

\* Notes handed to TargetNotes::new: four frequencies, and one NaN.
TargetPool ==
  {MkNote(2, "E", 15), MkNote(2, "F", 17), MkNote(2, "FSharp", 18),
   MkNote(2, "G", 25), MkNote(2, "A", NAN)}

\* TargetNotes::new: every arr the call can build, or a panic. The sort unwraps
\* partial_cmp and compares every note of a Vec of two or more.
TargetNotesNew(input) ==
  IF input = <<>> THEN {AnalysisPanic}
  ELSE IF Len(input) >= 2 /\ \E i \in 1..Len(input) : input[i].frequency = NAN
       THEN {AnalysisPanic}
       ELSE {Returned(arr) : arr \in sort_unstable_by(input)}

\* slice::binary_search_by over the frequencies: Ok(idx) of any note with the
\* frequency, else Err(idx) of the place the frequency would be inserted at;
\* indices count from 0.
binary_search_by(arr, freq) ==
  LET hits == {i \in 1..Len(arr) : arr[i].frequency = freq}
  IN IF hits # {}
     THEN {<<"Ok", i - 1>> : i \in hits}
     ELSE {<<"Err", Cardinality({i \in 1..Len(arr) : arr[i].frequency < freq})>>}

\* the match of get_closest with the lower neighbour preferred at every distance
closest_of_lower(arr, freq, search_result) ==
  LET idx == search_result[2]
  IN IF search_result[1] = "Ok" THEN arr[idx + 1]
     ELSE IF idx = 0 THEN arr[idx + 1]
     ELSE arr[idx]

\* target_notes.rs:19-37: the match on the search result
closest_of(arr, freq, search_result) ==
  LET idx == search_result[2]
  IN IF search_result[1] = "Ok" THEN arr[idx + 1]
     ELSE IF idx = 0 THEN arr[idx + 1]
     ELSE IF idx = Len(arr) THEN arr[idx]
     ELSE LET lower == arr[idx]
              upper == arr[idx + 1]
              lower_diff == freq - lower.frequency
              upper_diff == upper.frequency - freq
          IN IF lower_diff < upper_diff THEN lower ELSE upper

\* TargetNotes::get_closest: every outcome of the call. The search compares at
\* least one note with freq and unwraps partial_cmp; arr holds a NaN only when
\* it holds one note.
get_closest(arr, freq) ==
  IF freq = NAN \/ \E i \in 1..Len(arr) : arr[i].frequency = NAN
  THEN {AnalysisPanic}
  ELSE {Returned(closest_of(arr, freq, r)) : r \in binary_search_by(arr, freq)}

\* TargetNotes::resolution
resolution(arr) ==
  IF Len(arr) = 1 THEN 0 ELSE arr[2].frequency - arr[1].frequency

\* The runs: TargetNotes::new(notes), then get_closest(freq) and resolution()
\* on what it built.
TargetCalls ==
  {[op |-> "target", stage |-> "new", freq |-> f, arr |-> <<>>,
    closest |-> None, spacing |-> None] : f \in (0..MaxFreq) \cup {NAN}}

InitTarget ==
  /\ needed_detection_count = 1
  /\ state_update_period = 1
  /\ ThreadsIdle
  /\ audio_buffer = <<>>
  /\ block_size = 0
  /\ notes \in SeqsUpTo(TargetPool, MaxTargets)
  /\ note_registry = NoRegistry
  /\ call \in TargetCalls

CallTargetNotesNew ==
  /\ call.op = "target" /\ call.stage = "new"
  /\ \E built \in TargetNotesNew(notes) :
       IF built = AnalysisPanic
       THEN call' = [call EXCEPT !.stage = "panicked"]
       ELSE call' = [call EXCEPT !.stage = "built", !.arr = built.value]
  /\ UNCHANGED <<threadVars, streamVars, notes, note_registry>>

CallGetClosest ==
  /\ call.op = "target" /\ call.stage = "built" /\ call.closest = None
  /\ \E found \in get_closest(call.arr, call.freq) :
       IF found = AnalysisPanic
       THEN call' = [call EXCEPT !.stage = "panicked"]
       ELSE call' = [call EXCEPT !.closest = Some(found.value)]
  /\ UNCHANGED <<threadVars, streamVars, notes, note_registry>>

CallResolution ==
  /\ call.op = "target" /\ call.stage = "built" /\ call.spacing = None
  /\ call' = [call EXCEPT !.spacing = Some(resolution(call.arr))]
  /\ UNCHANGED <<threadVars, streamVars, notes, note_registry>>

NextTarget ==
  \/ CallTargetNotesNew
  \/ CallGetClosest
  \/ CallResolution

SpecTarget == InitTarget /\ [][NextTarget]_vars

\* ------------------------------------------------ C21, C22: the target notes
AbsDiff(a, b) == IF a >= b THEN a - b ELSE b - a

\* C21: for a TargetNotes built from a non-empty Vec and a frequency f that is a
\* number, get_closest(f) returns a note of the set that no note of the set is
\* nearer to f than; below the lowest frequency it returns the lowest note, above
\* the highest the highest.
C21_ClosestMinimisesDistance ==
  (call.op = "target" /\ call.stage = "built" /\ call.closest # None) =>
    LET n == call.closest[1]
        f == call.freq
        arr == call.arr
    IN /\ \E i \in 1..Len(notes) : notes[i] = n
       /\ \A i \in 1..Len(notes) :
            AbsDiff(f, n.frequency) <= AbsDiff(f, notes[i].frequency)
       /\ (\A i \in 1..Len(notes) : f < notes[i].frequency) =>
            \A i \in 1..Len(notes) : n.frequency <= notes[i].frequency
       /\ (\A i \in 1..Len(notes) : f > notes[i].frequency) =>
            \A i \in 1..Len(notes) : n.frequency >= notes[i].frequency

\* f = 21 lies between 18 and 25, nearer to 18, and the note at 18 was returned
C21_Witness ==
  /\ call.op = "target" /\ call.stage = "built"
  /\ Len(call.arr) = 3
  /\ call.freq = 21
  /\ call.closest = Some(MkNote(2, "FSharp", 18))
  /\ \E i \in 1..Len(notes) : notes[i].frequency = 25

\* C22 as claimed: with two or more notes, resolution() is the least difference
\* between two adjacent frequencies of the sorted set.
C22_ResolutionIsMinimumSpacing ==
  (call.op = "target" /\ call.stage = "built" /\ call.spacing # None
     /\ Len(call.arr) >= 2) =>
    /\ \E i \in 1..(Len(call.arr) - 1) :
         call.spacing[1] = call.arr[i + 1].frequency - call.arr[i].frequency
    /\ \A i \in 1..(Len(call.arr) - 1) :
         call.spacing[1] <= call.arr[i + 1].frequency - call.arr[i].frequency


\* ------------------------------------ audio_analysis::algorithm on its own
\* An f64 that is a quotient of two integers, kept as the pair.
Ratio(num, den) == [num |-> num, den |-> den]
RatioEq(a, b) == a.num * b.den = b.num * a.den

\* cumsum[i] of moving_avg, i counted from 0 (algorithm.rs:97-101)
RECURSIVE cumsum(_, _)
cumsum(signal, i) ==
  IF i = 0 THEN signal[1] ELSE cumsum(signal, i - 1) + signal[i + 1]

Min(a, b) == IF a <= b THEN a ELSE b
Max(a, b) == IF a >= b THEN a ELSE b

\* algorithm.rs:102-112: the average written to signal[i], i counted from 0
moving_avg_at(signal, window_size, i) ==
  LET left_offset == window_size \div 2
      right_offset == window_size - 1 - left_offset
      right == Min(Len(signal) - 1, i + right_offset)
  IN IF i > left_offset
     THEN LET left == i - left_offset - 1
          IN Ratio(cumsum(signal, right) - cumsum(signal, left), window_size)
     ELSE Ratio(cumsum(signal, right), right + 1)

\* moving_avg: the signal it leaves, or the panic of its assert. Every average
\* is computed from cumsum, so the order of the writes does not matter.
moving_avg(signal, window_size) ==
  IF window_size = 0 THEN AnalysisPanic
  ELSE IF signal = <<>> \/ window_size = 1
       THEN Returned([k \in 1..Len(signal) |-> Ratio(signal[k], 1)])
       ELSE Returned([k \in 1..Len(signal) |-> moving_avg_at(signal, window_size, k - 1)])

Peak(idx, value) == [idx |-> idx, value |-> value]

\* Option::unwrap_or
unwrap_or(option, default) == IF option = None THEN default ELSE option[1]

\* the distance test of find_peaks with > for >=
is_far_apart_strict(out, i, min_peak_dist) ==
  out = <<>> \/ i - out[Len(out)].idx > min_peak_dist

\* algorithm.rs:81
is_far_apart(out, i, min_peak_dist) ==
  out = <<>> \/ i - out[Len(out)].idx >= min_peak_dist

\* algorithm.rs:78-80
is_peak(signal, i, min_height) ==
  LET n_samples == Len(signal)
      greater_than_left == i = 0 \/ signal[i + 1] > signal[i]
      greater_than_right == i = n_samples - 1 \/ signal[i + 1] > signal[i + 2]
  IN greater_than_left /\ greater_than_right /\ signal[i + 1] >= min_height

\* the loop of find_peaks from index i on (algorithm.rs:77-85)
RECURSIVE find_peaks_from(_, _, _, _, _)
find_peaks_from(signal, i, min_height, min_peak_dist, out) ==
  IF i >= Len(signal) THEN out
  ELSE find_peaks_from(signal, i + 1, min_height, min_peak_dist,
         IF is_peak(signal, i, min_height) /\ is_far_apart(out, i, min_peak_dist)
         THEN Append(out, Peak(i, signal[i + 1]))
         ELSE out)

\* find_peaks
find_peaks(signal, min_height, min_peak_dist) ==
  LET n_samples == Len(signal)
  IN IF n_samples = 0 THEN <<>>
     ELSE IF n_samples = 1 THEN <<Peak(0, signal[1])>>
     ELSE find_peaks_from(signal, 0, unwrap_or(min_height, 0),
                          unwrap_or(min_peak_dist, 0), <<>>)

\* The samples of the signals: moving_avg takes the values of the repository's
\* tests, find_peaks three heights.
AvgSamples == {1, 5, 10}
PeakSamples == {0, 1, 2}
Options(S) == {None} \cup {Some(x) : x \in S}

AlgorithmCalls ==
  {[op |-> "moving_avg", done |-> FALSE, signal |-> s, window_size |-> w] :
     s \in SeqsUpTo(AvgSamples, MaxSignal), w \in 0..MaxWindow}
  \cup {[op |-> "find_peaks", done |-> FALSE, signal |-> s, min_height |-> h,
         min_peak_dist |-> d] :
          s \in SeqsUpTo(PeakSamples, MaxSignal), h \in Options(PeakSamples),
          d \in Options(0..MaxPeakDist)}

InitAlgorithm ==
  /\ needed_detection_count = 1
  /\ state_update_period = 1
  /\ ThreadsIdle
  /\ audio_buffer = <<>>
  /\ block_size = 0
  /\ notes = <<>>
  /\ note_registry = NoRegistry
  /\ call \in AlgorithmCalls

CallMovingAvg ==
  /\ call.op = "moving_avg" /\ ~call.done
  /\ call' = [op |-> "moving_avg", done |-> TRUE, signal |-> call.signal,
              window_size |-> call.window_size,
              out |-> moving_avg(call.signal, call.window_size)]
  /\ UNCHANGED <<threadVars, streamVars, notes, note_registry>>

CallFindPeaks ==
  /\ call.op = "find_peaks" /\ ~call.done
  /\ call' = [op |-> "find_peaks", done |-> TRUE, signal |-> call.signal,
              min_height |-> call.min_height, min_peak_dist |-> call.min_peak_dist,
              out |-> find_peaks(call.signal, call.min_height, call.min_peak_dist)]
  /\ UNCHANGED <<threadVars, streamVars, notes, note_registry>>

NextAlgorithm ==
  \/ CallMovingAvg
  \/ CallFindPeaks

SpecAlgorithm == InitAlgorithm /\ [][NextAlgorithm]_vars

\* ------------------------------------------- C23: the moving average
RECURSIVE SumOver(_, _, _)
SumOver(signal, from, to) ==
  IF from > to THEN 0 ELSE signal[from + 1] + SumOver(signal, from + 1, to)

\* C23 as claimed: with left = W / 2 and right = W - 1 - left, moving_avg sets
\* output[i] to the sum of the input over max(0, i - left) .. min(n - 1, i + right)
\* divided by the number of indices in that range, at both edges.
C23_TruncatedWindowMean ==
  (call.op = "moving_avg" /\ call.done /\ call.window_size >= 1) =>
    LET signal == call.signal
        n == Len(signal)
        left == call.window_size \div 2
        right == call.window_size - 1 - left
    IN /\ call.out.tag = "Ok"
       /\ Len(call.out.value) = n
       /\ \A i \in 0..(n - 1) :
            LET lo == Max(0, i - left)
                hi == Min(n - 1, i + right)
            IN RatioEq(call.out.value[i + 1],
                       Ratio(SumOver(signal, lo, hi), hi - lo + 1))

\* ------------------------------------------------ C24, C25: the peaks
FindPeaksDone == call.op = "find_peaks" /\ call.done

\* bin i, counted from 0, is strictly greater than each neighbour it has and is
\* at least min_height
Candidate(signal, i, min_height) ==
  /\ i = 0 \/ signal[i + 1] > signal[i]
  /\ i = Len(signal) - 1 \/ signal[i + 1] > signal[i + 2]
  /\ signal[i + 1] >= min_height

Ascending(out) == \A k \in 1..(Len(out) - 1) : out[k].idx < out[k + 1].idx

KeptIdx(out) == {out[k].idx : k \in 1..Len(out)}

\* C24 as claimed: with min_peak_dist = 0, find_peaks returns, in ascending index
\* order, exactly the bins that are strictly greater than each neighbour they
\* have and at least min_height, for signals of every length, 1 included.
C24_ExactlyLocalMaxima ==
  (FindPeaksDone /\ unwrap_or(call.min_peak_dist, 0) = 0) =>
    /\ Ascending(call.out)
    /\ \A k \in 1..Len(call.out) : call.out[k].value = call.signal[call.out[k].idx + 1]
    /\ KeptIdx(call.out) =
         {i \in 0..(Len(call.signal) - 1) :
            Candidate(call.signal, i, unwrap_or(call.min_height, 0))}

\* C25: a bin that is a candidate peak is kept exactly when no peak before it
\* was kept or its index is at least min_peak_dist above the last kept one; so
\* two kept peaks are at least min_peak_dist apart and the leftmost candidate is
\* kept, whatever the heights.
C25_GreedyMinPeakDist ==
  FindPeaksDone =>
    LET d == unwrap_or(call.min_peak_dist, 0)
        kept == KeptIdx(call.out)
        cands == {i \in 0..(Len(call.signal) - 1) :
                    Candidate(call.signal, i, unwrap_or(call.min_height, 0))}
    IN /\ Ascending(call.out)
       /\ \A i \in cands :
            LET before == {j \in kept : j < i}
            IN i \in kept <=>
                 (before = {} \/ i - (CHOOSE j \in before : \A m \in before : m <= j) >= d)
       /\ \A i \in kept : \A j \in kept : i < j => j - i >= d
       /\ cands # {} => (CHOOSE i \in cands : \A m \in cands : i <= m) \in kept

\* of the candidates 0, 2 and 4 with min_peak_dist 3, the lower bin 0 was kept,
\* the higher bin 2 was dropped and bin 4 was kept
C25_Witness ==
  /\ FindPeaksDone
  /\ call.signal = <<1, 0, 2, 0, 1>>
  /\ call.min_peak_dist = Some(3)
  /\ call.min_height = Some(1)
  /\ call.out = <<Peak(0, 1), Peak(4, 1)>>


\* ------------------------------------------- algorithm::find_note on its own
\* algorithm.rs:10: the threshold is 500 medians, peaks are 10 bins apart;
\* algorithm.rs:15: the 5 highest peaks vote
ThresholdFactor == 500
AnalyzerPeakDist == 10
TopPeaks == 5

\* statrs' median of a slice: the middle value in sorted order, the mean of the
\* two middle values for an even length (the spectra drawn have an odd length
\* or none), NaN for an empty slice.
KthSmallest(signal, k) ==
  CHOOSE v \in {signal[i] : i \in 1..Len(signal)} :
    /\ Cardinality({i \in 1..Len(signal) : signal[i] < v}) < k
    /\ Cardinality({i \in 1..Len(signal) : signal[i] <= v}) >= k

median(signal) ==
  LET n == Len(signal)
  IN IF n = 0 THEN NAN
     ELSE IF n % 2 = 1 THEN KthSmallest(signal, (n + 1) \div 2)
     ELSE (KthSmallest(signal, n \div 2) + KthSmallest(signal, n \div 2 + 1)) \div 2

\* peaks.sort_unstable_by on the value (algorithm.rs:11): the arrangements in
\* non-decreasing value; peaks of equal value may come out in any order.
RECURSIVE sort_peaks(_)
sort_peaks(peaks) ==
  IF peaks = {} THEN {<<>>}
  ELSE UNION {{<<p>> \o rest : rest \in sort_peaks(peaks \ {p})} :
                p \in {q \in peaks : \A r \in peaks : q.value <= r.value}}

\* .into_iter().rev().take(5) (algorithm.rs:12-15)
rev_take(sorted, k) ==
  [i \in 1..Min(k, Len(sorted)) |-> sorted[Len(sorted) + 1 - i]]

\* The peaks that vote: every outcome of the sort, reversed and cut.
top_peaks(freq_spectrum) ==
  LET threshold == IF median(freq_spectrum) = NAN THEN NAN
                   ELSE ThresholdFactor * median(freq_spectrum)
      peaks == find_peaks(freq_spectrum, Some(threshold), Some(AnalyzerPeakDist))
  IN {rev_take(sorted, TopPeaks) :
        sorted \in sort_peaks({peaks[k] : k \in 1..Len(peaks)})}

\* algorithm.rs:16-20: the nearest target note of every voting peak. The target
\* notes have distinct frequencies, so get_closest has one outcome.
top_notes_of(top, delta_f, target_notes) ==
  [i \in 1..Len(top) |->
     (CHOOSE r \in get_closest(target_notes, top[i].idx * delta_f) : TRUE).value]

\* most_common: the values it can return. It returns the last entry of the
\* greatest count in the iteration order of a HashMap, which is any order.
most_common(values) ==
  LET count(v) == Cardinality({i \in 1..Len(values) : values[i] = v})
  IN IF values = <<>> THEN {None}
     ELSE {Some(values[i]) : i \in {j \in 1..Len(values) :
                                      \A m \in 1..Len(values) :
                                        count(values[m]) <= count(values[j])}}

\* algorithm.rs:22-29: the first of the lowest-frequency notes of the name
min_note_of(top_notes, notename) ==
  IF notename = None THEN None
  ELSE LET named == {i \in 1..Len(top_notes) : top_notes[i].name = notename[1]}
           least == {i \in named : \A j \in named :
                                     top_notes[i].frequency <= top_notes[j].frequency}
       IN IF named = {} THEN None
          ELSE Some(top_notes[CHOOSE i \in least : \A j \in least : i <= j])

\* The target notes of the runs: three names over two octaves, sorted.
AnalyzerTargets ==
  <<MkNote(1, "A", 10), MkNote(1, "B", 20), MkNote(2, "A", 30),
    MkNote(2, "C", 45), MkNote(2, "B", 60)>>

\* The spectra: a floor with a spike of one of three heights, or none, every
\* AnalyzerPeakDist bins; and the spectra of one bin and of none.
SpikeHeights == {4, 1000, 2000}
Floors == {0, 2}

Spectrum(floor, spikes) ==
  [k \in 1..(AnalyzerPeakDist * (MaxSlots - 1) + 1) |->
     IF (k - 1) % AnalyzerPeakDist = 0 THEN spikes[(k - 1) \div AnalyzerPeakDist + 1]
     ELSE floor]

Spectra ==
  UNION {{Spectrum(floor, spikes) :
            spikes \in [1..MaxSlots -> SpikeHeights \cup {floor}]} : floor \in Floors}
  \cup {<<v>> : v \in SpikeHeights \cup Floors} \cup {<<>>}

FindNoteCalls ==
  {[op |-> "find_note", done |-> FALSE, freq_spectrum |-> s, delta_f |-> 1] :
     s \in Spectra}

InitFindNote ==
  /\ needed_detection_count = 1
  /\ state_update_period = 1
  /\ ThreadsIdle
  /\ audio_buffer = <<>>
  /\ block_size = 0
  /\ notes = AnalyzerTargets
  /\ note_registry = NoRegistry
  /\ call \in FindNoteCalls

\* find_note(freq_spectrum, delta_f, target_notes), and the same call once more:
\* the sort is a function of its input, the HashMap's order is drawn anew.
CallFindNote ==
  /\ call.op = "find_note" /\ ~call.done
  /\ \E top \in top_peaks(call.freq_spectrum) :
       LET top_notes == top_notes_of(top, call.delta_f, notes)
           top_notenames == [i \in 1..Len(top_notes) |-> top_notes[i].name]
       IN \E first \in most_common(top_notenames),
             second \in most_common(top_notenames) :
            call' = [op |-> "find_note", done |-> TRUE,
                     freq_spectrum |-> call.freq_spectrum, delta_f |-> call.delta_f,
                     top |-> top, top_notes |-> top_notes,
                     result |-> min_note_of(top_notes, first),
                     again |-> min_note_of(top_notes, second)]
  /\ UNCHANGED <<threadVars, streamVars, notes, note_registry>>

NextFindNote == CallFindNote

SpecFindNote == InitFindNote /\ [][NextFindNote]_vars

\* ------------------------------------------------ C26, C27: the vote
FindNoteDone == call.op = "find_note" /\ call.done

\* the bins that are strictly greater than each neighbour they have and at
\* least 500 medians
ClearingBins(signal) ==
  {i \in 0..(Len(signal) - 1) :
     Candidate(signal, i, ThresholdFactor * median(signal))}

NameCount(top_notes, name) ==
  Cardinality({i \in 1..Len(top_notes) : top_notes[i].name = name})

\* C26 as claimed: find_note returns None when no peak clears the threshold;
\* otherwise the voting peaks are the 5 highest, and it returns the
\* lowest-frequency candidate of a name no other name outnumbers.
C26_NoneOrLowestOfMostCommon ==
  FindNoteDone =>
    LET bins == ClearingBins(call.freq_spectrum)
        top_notes == call.top_notes
    IN IF bins = {} THEN call.result = None
       ELSE /\ Len(call.top) = Min(TopPeaks, Cardinality(bins))
            /\ \A k \in 1..Len(call.top) :
                 /\ call.top[k].idx \in bins
                 /\ call.top[k].value = call.freq_spectrum[call.top[k].idx + 1]
                 /\ \A i \in bins \ {call.top[m].idx : m \in 1..Len(call.top)} :
                      call.freq_spectrum[i + 1] <= call.top[k].value
                 /\ \A n \in 1..Len(notes) :
                      AbsDiff(call.top[k].idx * call.delta_f, top_notes[k].frequency)
                        <= AbsDiff(call.top[k].idx * call.delta_f, notes[n].frequency)
            /\ call.result # None
            /\ \E k \in 1..Len(top_notes) : top_notes[k] = call.result[1]
            /\ \A k \in 1..Len(top_notes) :
                 /\ NameCount(top_notes, top_notes[k].name)
                      <= NameCount(top_notes, call.result[1].name)
                 /\ top_notes[k].name = call.result[1].name =>
                      call.result[1].frequency <= top_notes[k].frequency

\* C27 as claimed: the vote is deterministic; two runs of find_note on the same
\* spectrum with the same target notes return the same note.
C27_VoteIsDeterministic ==
  FindNoteDone => call.result = call.again

====
